---- MODULE Spec2Model ----
(***************************************************************************)
(* The email-open tracking server of src/server.js, second revision         *)
(* (lines 271-467): validated tracking identifiers, a rotating append-only  *)
(* log file, and the in-memory index logCache that the query endpoints      *)
(* read.  Text (identifiers, user agents) is a sequence of one-character    *)
(* strings, so that the regular expressions of the handlers are computed    *)
(* character by character.                                                  *)
(***************************************************************************)
EXTENDS Integers, Sequences, FiniteSets, TLC

VARIABLES
    logCache,   \* the Map emailId -> entries, as its key/value pairs in insertion order
    active,     \* the file TRACKING_LOG_FILE
    rotated,    \* the backup files tracklog_<Date.now()>.jsonl, by their time stamp
    now,        \* the wall clock read by new Date() and Date.now()
    req,        \* the request handled by the last step (NoReq after a step that is none)
    res,        \* the response sent for it
    appends,    \* lines appended to the log file so far, which the model bounds
    calls       \* the handler calls of tracking requests, step by step (SpecCalls)

vars == <<logCache, active, rotated, now, req, res, appends, calls>>

----------------------------------------------------------------------------
(* Bounds of the model *)

\* lines appended to the log file over a behaviour
MaxEvents == 3
\* largest reading of the clock
MaxClock == 1
\* tracking requests in flight together
MaxCalls == 2

----------------------------------------------------------------------------
(* Text *)

Upper == <<"A","B","C","D","E","F","G","H","I","J","K","L","M",
           "N","O","P","Q","R","S","T","U","V","W","X","Y","Z">>
Lower == <<"a","b","c","d","e","f","g","h","i","j","k","l","m",
           "n","o","p","q","r","s","t","u","v","w","x","y","z">>
Digits == <<"0","1","2","3","4","5","6","7","8","9">>

Range(s) == {s[i] : i \in DOMAIN s}

\* the character class [a-zA-Z0-9_-]
IdChars == Range(Lower) \cup Range(Upper) \cup Range(Digits) \cup {"_", "-"}

\* case folding of the i flag
FoldTable == [c \in Range(Upper) |-> Lower[CHOOSE i \in DOMAIN Upper : Upper[i] = c]]
ToLower(c) == IF c \in DOMAIN FoldTable THEN FoldTable[c] ELSE c

LowerCase(s) == [i \in DOMAIN s |-> ToLower(s[i])]

\* pat occurs in s as a substring
Contains(s, pat) ==
    \E k \in 0..(Len(s) - Len(pat)) : \A i \in 1..Len(pat) : s[k + i] = pat[i]

\* /pat/i.test(s) for a literal pattern written in lower case
TestI(s, pat) == Contains(LowerCase(s), pat)

\* s repeated n times
RECURSIVE Repeat(_, _)
Repeat(s, n) == IF n = 0 THEN <<>> ELSE s \o Repeat(s, n - 1)

----------------------------------------------------------------------------
(* Values of the JavaScript program *)

\* undefined (an absent header, a missing Map key) and JSON null: no text equals
\* them, a text being a sequence of one-character strings
Undefined == <<"undefined">>
Null == <<"null">>

\* a || b on texts: b when a is undefined or the empty string
OrElse(a, b) == IF a = Undefined \/ a = <<>> THEN b ELSE a

\* Date.prototype.toISOString of the clock reading t (milliseconds, t < 1000)
toISOString(t) ==
    <<"1","9","7","0","-","0","1","-","0","1","T","0","0",":","0","0",":","0","0",".">> \o
    <<Digits[((t \div 100) % 10) + 1], Digits[((t \div 10) % 10) + 1], Digits[(t % 10) + 1], "Z">>

----------------------------------------------------------------------------
(* The inputs the model draws requests from *)

Id8 == <<"a","b","c","d","e","f","g","h">>
IdProto == <<"_","_","p","r","o","t","o","_","_">>
Id128 == Repeat(<<"Z", "9", "_", "-">>, 32)
Id1 == <<"a">>
Id7 == <<"a","b","c","d","e","f","g">>
Id129 == Id128 \o <<"x">>
IdDot == <<"a","b","c",".","d","e","f","g","h">>
IdNewline == <<"a","b","c","d","e","f","g","h","\n">>

UAMozilla == <<"M","o","z","i","l","l","a","/","5",".","0">>
UAImageProxy == <<"G","o","o","g","l","e","I","m","a","g","e","P","r","o","x","y">>
UAGooglebot == <<"G","o","o","g","l","e","b","o","t","/","2",".","1">>
UASpider == <<"S","P","I","D","E","R">>
UASlurp == <<"Y","a","h","o","o","!"," ","S","l","u","r","p">>
UACrawler == <<"m","y","-","C","r","a","w","l","e","r">>

IpDirect == <<"1","0",".","0",".","0",".","1">>
XffChain == <<"9",".","9",".","9",".","9",",","1","0",".","0",".","0",".","1">>

\* the one file-system call of a request that throws, if any
Faults == {"none", "stat", "rename", "create", "append"}

----------------------------------------------------------------------------
(* The log files *)

\* The rotation threshold in bytes. The server sets 5 * 1024 * 1024; the model
\* scales it to the size of one line, so that the bound on appended lines leaves
\* room for several rotations: a file holding one line of 139 bytes takes a
\* second line, a file holding one line of 143 bytes is rotated.
MAX_LOG_SIZE == 140

\* A file: whether it exists, the bytes it held when the process started (lines
\* of earlier runs), and the lines appended since.
NoFile == [exists |-> FALSE, base |-> 0, lines |-> <<>>]
EmptyFile == [exists |-> TRUE, base |-> 0, lines |-> <<>>]

\* sizes the log file can have when the process starts
BaseSizes == {0, MAX_LOG_SIZE}

\* length of JSON.stringify(entry) + '\n': the braces, keys, quotes and commas
\* (12 + 15 + 8 + 15 + 14 + 17 + 1 characters), the five texts and the boolean
LineSize(entry) ==
    (12 + 15 + 8 + 15 + 14 + 17 + 1)
    + Len(entry.emailId) + Len(entry.timestamp) + Len(entry.ip)
    + Len(entry.userAgent) + Len(entry.referrer)
    + (IF entry.isGmailProxy THEN 4 ELSE 5) + 1

RECURSIVE LinesSize(_)
LinesSize(lines) ==
    IF lines = <<>> THEN 0 ELSE LineSize(Head(lines)) + LinesSize(Tail(lines))

\* fs.statSync(file).size
Size(f) == f.base + LinesSize(f.lines)

\* fs.appendFileSync(file, line): creates the file when it is missing
appendFileSync(f, entry) ==
    [exists |-> TRUE, base |-> f.base, lines |-> Append(f.lines, entry)]

----------------------------------------------------------------------------
(* logCache, a Map: its entries [key, value] in insertion order *)

MapHas(m, k) == \E i \in DOMAIN m : m[i].key = k

MapIndex(m, k) == CHOOSE i \in DOMAIN m : m[i].key = k

\* logCache.get(id) || []
GetLogs(m, k) == IF MapHas(m, k) THEN m[MapIndex(m, k)].value ELSE <<>>

\* a set that keeps no other key
MapSet_dropsOthers(m, k, v) == <<[key |-> k, value |-> v]>>

\* logCache.set(k, v), and logCache.get(k).push(...) as the set of the longer list
MapSet(m, k, v) ==
    IF MapHas(m, k)
    THEN [m EXCEPT ![MapIndex(m, k)].value = v]
    ELSE Append(m, [key |-> k, value |-> v])

----------------------------------------------------------------------------
(* The functions of the server *)

initializeLogFile(f) == IF ~f.exists THEN EmptyFile ELSE f

\* rotateLogFile that empties the file in place, without the rename
rotateLogFile_truncates(fs, t, fault) ==
    IF fs.active.exists /\ fault # "stat" /\ Size(fs.active) > MAX_LOG_SIZE
    THEN [active |-> EmptyFile, rotated |-> fs.rotated, threw |-> FALSE]
    ELSE [active |-> fs.active, rotated |-> fs.rotated, threw |-> fault = "stat"]

\* rotateLogFile without its test of the size
rotateLogFile_never(fs, t, fault) ==
    [active |-> fs.active, rotated |-> fs.rotated,
     threw |-> fs.active.exists /\ fault = "stat"]

\* rotateLogFile() at clock reading t. fs is [active, rotated]; the result adds
\* threw, TRUE when the call named by fault threw.
rotateLogFile(fs, t, fault) ==
    IF fs.active.exists
    THEN IF fault = "stat"
         THEN [active |-> fs.active, rotated |-> fs.rotated, threw |-> TRUE]
         ELSE IF Size(fs.active) > MAX_LOG_SIZE
              THEN IF fault = "rename"
                   THEN [active |-> fs.active, rotated |-> fs.rotated, threw |-> TRUE]
                   ELSE LET backups == [fs.rotated EXCEPT ![t] = fs.active]
                        IN  IF fault = "create"
                            THEN [active |-> NoFile, rotated |-> backups, threw |-> TRUE]
                            ELSE [active |-> EmptyFile, rotated |-> backups, threw |-> FALSE]
              ELSE [active |-> fs.active, rotated |-> fs.rotated, threw |-> FALSE]
    ELSE [active |-> fs.active, rotated |-> fs.rotated, threw |-> FALSE]

\* logEvent with logCache.set(entry.emailId, [entry]) in place of the push
logEvent_replaces(f, cache, entry, fault) ==
    IF fault = "append"
    THEN [active |-> f, cache |-> cache, threw |-> TRUE]
    ELSE [active |-> appendFileSync(f, entry),
          cache  |-> MapSet(cache, entry.emailId, <<entry>>),
          threw  |-> FALSE]

\* logEvent with unshift(entry) in place of push(entry)
logEvent_unshifts(f, cache, entry, fault) ==
    IF fault = "append"
    THEN [active |-> f, cache |-> cache, threw |-> TRUE]
    ELSE [active |-> appendFileSync(f, entry),
          cache  |-> MapSet(cache, entry.emailId,
                            <<entry>> \o GetLogs(cache, entry.emailId)),
          threw  |-> FALSE]

\* logEvent(entry): the result is [active, cache, threw]
logEvent(f, cache, entry, fault) ==
    IF fault = "append"
    THEN [active |-> f, cache |-> cache, threw |-> TRUE]
    ELSE LET withKey == IF ~MapHas(cache, entry.emailId)
                        THEN MapSet(cache, entry.emailId, <<>>)
                        ELSE cache
         IN  [active |-> appendFileSync(f, entry),
              cache  |-> MapSet(withKey, entry.emailId,
                                Append(GetLogs(withKey, entry.emailId), entry)),
              threw  |-> FALSE]

MinIdLen == 8
MaxIdLen == 128

\* the test without its $ anchor: a valid prefix is enough
ValidId_unanchored(emailId) ==
    /\ Len(emailId) >= MinIdLen
    /\ \A i \in 1..MinIdLen : emailId[i] \in IdChars

\* /^[a-zA-Z0-9_-]{8,128}$/.test(emailId)
ValidId(emailId) ==
    /\ Len(emailId) >= MinIdLen
    /\ Len(emailId) <= MaxIdLen
    /\ \A i \in DOMAIN emailId : emailId[i] \in IdChars

\* /google|ggpht|googleusercontent/i.test(userAgent)
isGmailProxy(userAgent) ==
    \/ TestI(userAgent, <<"g","o","o","g","l","e">>)
    \/ TestI(userAgent, <<"g","g","p","h","t">>)
    \/ TestI(userAgent, <<"g","o","o","g","l","e","u","s","e","r","c","o","n","t","e","n","t">>)

\* the test without its i flag
isBot_caseSensitive(userAgent) ==
    \/ Contains(userAgent, <<"b","o","t">>)
    \/ Contains(userAgent, <<"c","r","a","w","l","e","r">>)
    \/ Contains(userAgent, <<"s","p","i","d","e","r">>)
    \/ Contains(userAgent, <<"s","l","u","r","p">>)

\* the test extended to the image proxies
isBot_filtersProxies(userAgent) ==
    \/ TestI(userAgent, <<"b","o","t">>)
    \/ TestI(userAgent, <<"c","r","a","w","l","e","r">>)
    \/ TestI(userAgent, <<"s","p","i","d","e","r">>)
    \/ TestI(userAgent, <<"s","l","u","r","p">>)
    \/ TestI(userAgent, <<"g","o","o","g","l","e">>)

\* /bot|crawler|spider|slurp/i.test(userAgent)
isBot(userAgent) ==
    \/ TestI(userAgent, <<"b","o","t">>)
    \/ TestI(userAgent, <<"c","r","a","w","l","e","r">>)
    \/ TestI(userAgent, <<"s","p","i","d","e","r">>)
    \/ TestI(userAgent, <<"s","l","u","r","p">>)

\* s.split(',')[0]
RECURSIVE SplitFirst(_)
SplitFirst(s) ==
    IF s = <<>> \/ Head(s) = "," THEN <<>> ELSE <<Head(s)>> \o SplitFirst(Tail(s))

\* req.get('X-Forwarded-For')?.split(',')[0] || req.ip
realIp(xff, ip) == OrElse(IF xff = Undefined THEN Undefined ELSE SplitFirst(xff), ip)

----------------------------------------------------------------------------
(* Responses *)

NoRes == [status |-> 0, kind |-> "none"]

PixelResponse ==
    [status |-> 200, kind |-> "pixel",
     contentType  |-> "image/gif",
     cacheControl |-> "no-cache, no-store, must-revalidate",
     pragma |-> "no-cache", expires |-> "0"]

InvalidIdResponse == [status |-> 400, kind |-> "text", text |-> "Invalid email ID"]

RateLimitedResponse ==
    [status |-> 429, kind |-> "text", text |-> "Too many tracking requests from this IP"]

\* the error-handling middleware
InternalErrorResponse ==
    [status |-> 500, kind |-> "json",
     json |-> [success |-> FALSE, error |-> "Internal server error"]]

----------------------------------------------------------------------------
(* The handlers *)

NoReq == [op |-> "none"]

\* GET /track/:emailId/:timestamp?/:random? from new Date() on, for an identifier
\* that passed the test. r is the request, t the clock at new Date(), tRot the
\* clock at Date.now() in rotateLogFile. An exception of rotateLogFile or
\* logEvent leaves the handler and reaches the error-handling middleware.
trackAccepted(cache, f, backups, r, t, tRot) ==
    LET timestamp == toISOString(t)
        userAgent == OrElse(r.userAgent, <<>>)
        referrer  == OrElse(r.referer, <<>>)
        ip        == realIp(r.xff, r.ip)
    IN  IF ~isBot(userAgent)
        THEN LET entry == [emailId |-> r.emailId, timestamp |-> timestamp, ip |-> ip,
                           userAgent |-> userAgent, referrer |-> referrer,
                           isGmailProxy |-> isGmailProxy(userAgent)]
                 rot == rotateLogFile([active |-> f, rotated |-> backups], tRot, r.fault)
                 log == logEvent(rot.active, cache, entry, r.fault)
             IN  IF rot.threw
                 THEN [cache |-> cache, active |-> rot.active, rotated |-> rot.rotated,
                       res |-> InternalErrorResponse]
                 ELSE IF log.threw
                 THEN [cache |-> cache, active |-> rot.active, rotated |-> rot.rotated,
                       res |-> InternalErrorResponse]
                 ELSE [cache |-> log.cache, active |-> log.active, rotated |-> rot.rotated,
                       res |-> PixelResponse]
        ELSE [cache |-> cache, active |-> f, rotated |-> backups, res |-> PixelResponse]

\* the handler without the test of the identifier
trackHandler_unvalidated(cache, f, backups, r, t, tRot) ==
    trackAccepted(cache, f, backups, r, t, tRot)

\* GET /track/:emailId/:timestamp?/:random?, once past trackLimiter
trackHandler(cache, f, backups, r, t, tRot) ==
    IF ~ValidId(r.emailId)
    THEN [cache |-> cache, active |-> f, rotated |-> backups, res |-> InvalidIdResponse]
    ELSE trackAccepted(cache, f, backups, r, t, tRot)

\* the handler with logCache.set(emailId, []) for an identifier it does not hold
statusHandler_createsKey(cache, emailId) ==
    [cache |-> IF MapHas(cache, emailId) THEN cache ELSE MapSet(cache, emailId, <<>>),
     res |-> [status |-> 200, kind |-> "json",
              json |-> [success |-> TRUE, emailId |-> emailId,
                        opened |-> Len(GetLogs(cache, emailId)) > 0,
                        openCount |-> Len(GetLogs(cache, emailId)),
                        firstOpened |-> Null, lastOpened |-> Null,
                        opens |-> GetLogs(cache, emailId)]]]

\* GET /api/email/:emailId/status
statusHandler(cache, emailId) ==
    LET logs == GetLogs(cache, emailId)
    IN  [cache |-> cache,
         res |-> [status |-> 200, kind |-> "json",
         json |-> [success |-> TRUE, emailId |-> emailId,
                   opened |-> Len(logs) > 0,
                   openCount |-> Len(logs),
                   firstOpened |-> IF Len(logs) > 0
                                   THEN OrElse(logs[1].timestamp, Null) ELSE Null,
                   lastOpened |-> IF Len(logs) > 0
                                  THEN OrElse(logs[Len(logs)].timestamp, Null) ELSE Null,
                   opens |-> logs]]]

\* the entry the bulk endpoint computes for one identifier
BulkSummary(logs) ==
    [opened      |-> Len(logs) > 0,
     openCount   |-> Len(logs),
     firstOpened |-> IF Len(logs) > 0 THEN OrElse(Head(logs).timestamp, Null) ELSE Null,
     lastOpened  |-> IF Len(logs) > 0 THEN OrElse(logs[Len(logs)].timestamp, Null) ELSE Null]

\* results[id] = v on a plain object: the key __proto__ is the accessor of
\* Object.prototype, so assigning an object to it replaces the prototype of
\* results and adds no own property
SetProperty(obj, k, v) ==
    IF k = IdProto
    THEN obj
    ELSE [x \in DOMAIN obj \cup {k} |-> IF x = k THEN v ELSE obj[x]]

\* emailIds.forEach(id => { results[id] = {...} }), from index i on
RECURSIVE BulkResults(_, _, _, _)
BulkResults(cache, emailIds, i, results) ==
    IF i > Len(emailIds)
    THEN results
    ELSE BulkResults(cache, emailIds, i + 1,
                     SetProperty(results, emailIds[i], BulkSummary(GetLogs(cache, emailIds[i]))))

\* the empty object {}
EmptyObject == [x \in {} |-> 0]

\* the handler without the Array.isArray test: forEach of a value that is no
\* array throws, and the error-handling middleware answers
bulkStatusHandler_unchecked(cache, emailIds) ==
    IF ~emailIds.isArray
    THEN [cache |-> cache, res |-> InternalErrorResponse]
    ELSE [cache |-> cache,
          res |-> [status |-> 200, kind |-> "json",
                   json |-> [success |-> TRUE,
                             results |-> BulkResults(cache, emailIds.items, 1, EmptyObject)]]]

\* POST /api/emails/status; body.emailIds is [isArray, items]
bulkStatusHandler(cache, emailIds) ==
    IF ~emailIds.isArray
    THEN [cache |-> cache,
          res |-> [status |-> 400, kind |-> "json",
                   json |-> [success |-> FALSE, error |-> "Invalid input"]]]
    ELSE [cache |-> cache,
          res |-> [status |-> 200, kind |-> "json",
                   json |-> [success |-> TRUE,
                             results |-> BulkResults(cache, emailIds.items, 1, EmptyObject)]]]

\* for (const [emailId, entries] of logCache.entries()) all.push(...entries)
RECURSIVE AllEntries(_)
AllEntries(cache) ==
    IF cache = <<>> THEN <<>> ELSE Head(cache).value \o AllEntries(Tail(cache))

\* GET /api/logs
logsHandler(cache) ==
    [cache |-> cache,
     res |-> [status |-> 200, kind |-> "json",
              json |-> [success |-> TRUE, total |-> Len(AllEntries(cache)),
                        logs |-> AllEntries(cache)]]]

----------------------------------------------------------------------------
(* The requests the model draws *)

Request(id, ua, referer, xff) ==
    [emailId |-> id, userAgent |-> ua, referer |-> referer, xff |-> xff, ip |-> IpDirect]

\* requests with a valid identifier and a user agent that is no bot
OpenRequests ==
    {Request(Id8, UAImageProxy, Undefined, Undefined),
     Request(IdProto, Undefined, UAMozilla, XffChain)}

\* requests of bots, with a valid identifier
BotRequests ==
    {Request(Id8, UAGooglebot, Undefined, Undefined),
     Request(Id8, UASpider, Undefined, Undefined),
     Request(Id8, UASlurp, Undefined, Undefined),
     Request(Id128, UACrawler, Undefined, Undefined)}

\* requests with an invalid identifier
InvalidRequests ==
    {Request(Id1, UAMozilla, Undefined, Undefined),
     Request(Id7, UASpider, Undefined, Undefined),
     Request(Id129, UAMozilla, Undefined, Undefined),
     Request(IdDot, UAMozilla, Undefined, Undefined),
     Request(IdNewline, UAMozilla, Undefined, Undefined)}

TrackRequests == OpenRequests \cup BotRequests \cup InvalidRequests

\* identifiers of the status requests
StatusIds == {Id8, IdProto, Id1}

\* values of body.emailIds: arrays, a string, and absent
BulkBodies ==
    {[isArray |-> TRUE, items |-> a] :
        a \in {<<>>, <<IdProto>>, <<Id8, Id128, Id1>>, <<Id1, IdProto, Id8, Id8>>}}
    \cup {[isArray |-> FALSE, items |-> <<"not-an-array">>],
          [isArray |-> FALSE, items |-> Undefined]}

----------------------------------------------------------------------------
(* The state machine *)

\* the slots of the handler calls in flight
Slots == 1..MaxCalls

\* a slot without a request
IdleCall == [pc |-> "idle", r |-> NoReq, entry |-> NoReq, res |-> NoRes]

\* whether the call named by fault is made by a request that logs
FaultCanOccur(fault) ==
    CASE fault = "none"   -> TRUE
      [] fault = "stat"   -> active.exists
      [] fault = "rename" -> active.exists /\ Size(active) > MAX_LOG_SIZE
      [] fault = "create" -> active.exists /\ Size(active) > MAX_LOG_SIZE
      [] fault = "append" -> TRUE

\* the requests whose handler reaches rotateLogFile and logEvent
LoggingRequests ==
    {r \in TrackRequests : ValidId(r.emailId) /\ ~isBot(OrElse(r.userAgent, <<>>))}

\* the process has started: initializeLogFile() has run over the file earlier
\* runs left, and logCache is empty
Init ==
    /\ logCache = <<>>
    /\ \E b \in BaseSizes : active = initializeLogFile([exists |-> b > 0, base |-> b, lines |-> <<>>])
    /\ rotated = [t \in 0..MaxClock |-> NoFile]
    /\ now = 0
    /\ req = NoReq
    /\ res = NoRes
    /\ appends = 0
    /\ calls = [s \in Slots |-> IdleCall]

Track ==
    \E r \in TrackRequests, fault \in Faults, late \in 0..1 :
        /\ now + late <= MaxClock
        /\ IF r \in LoggingRequests
           THEN /\ appends < MaxEvents
                /\ FaultCanOccur(fault)
                /\ late = 1 => (active.exists /\ Size(active) > MAX_LOG_SIZE /\ fault # "stat")
           ELSE fault = "none" /\ late = 0
        /\ LET q == [op |-> "track", emailId |-> r.emailId, userAgent |-> r.userAgent,
                     referer |-> r.referer, xff |-> r.xff, ip |-> r.ip, fault |-> fault]
               out == trackHandler(logCache, active, rotated, q, now, now + late)
           IN  /\ logCache' = out.cache
               /\ active' = out.active
               /\ rotated' = out.rotated
               /\ res' = out.res
               /\ req' = q
               /\ now' = now + late
               /\ appends' = appends + Len(AllEntries(out.cache)) - Len(AllEntries(logCache))
               /\ UNCHANGED calls

\* trackLimiter answers for the handler: more than max requests of the address
\* in the window
TrackRateLimited ==
    \E r \in {Request(Id8, UAMozilla, Undefined, Undefined)} :
        /\ req' = [op |-> "track", emailId |-> r.emailId, userAgent |-> r.userAgent,
                   referer |-> r.referer, xff |-> r.xff, ip |-> r.ip, fault |-> "limited"]
        /\ res' = RateLimitedResponse
        /\ UNCHANGED <<logCache, active, rotated, now, appends, calls>>

\* GET /api/email/{id}/status is handled
StatusRequest(id) ==
    /\ req' = [op |-> "status", emailId |-> id]
    /\ logCache' = statusHandler(logCache, id).cache
    /\ res' = statusHandler(logCache, id).res
    /\ UNCHANGED <<active, rotated, now, appends, calls>>

Status == \E id \in StatusIds : StatusRequest(id)

\* POST /api/emails/status with emailIds b is handled
BulkRequest(b) ==
    /\ req' = [op |-> "bulk", emailIds |-> b]
    /\ logCache' = bulkStatusHandler(logCache, b).cache
    /\ res' = bulkStatusHandler(logCache, b).res
    /\ UNCHANGED <<active, rotated, now, appends, calls>>

BulkStatus == \E b \in BulkBodies : BulkRequest(b)

DumpLogs ==
    /\ req' = [op |-> "logs"]
    /\ logCache' = logsHandler(logCache).cache
    /\ res' = logsHandler(logCache).res
    /\ UNCHANGED <<active, rotated, now, appends, calls>>

\* the process exits (SIGTERM, SIGINT) and is started again over the same files
Restart ==
    /\ logCache' = <<>>
    /\ active' = initializeLogFile(active)
    /\ req' = NoReq
    /\ res' = NoRes
    /\ UNCHANGED <<rotated, now, appends, calls>>

\* the wall clock advances
Tick ==
    /\ now < MaxClock
    /\ now' = now + 1
    /\ req' = NoReq
    /\ res' = NoRes
    /\ UNCHANGED <<logCache, active, rotated, appends, calls>>

\* the wall clock is set back
ClockSetBack ==
    /\ \E t \in 0..(now - 1) : now' = t
    /\ req' = NoReq
    /\ res' = NoRes
    /\ UNCHANGED <<logCache, active, rotated, appends, calls>>

Next ==
    \/ Track
    \/ TrackRateLimited
    \/ Status
    \/ BulkStatus
    \/ DumpLogs
    \/ Tick

Spec == Init /\ [][Next]_vars

\* the server over several process lifetimes
NextRestart ==
    \/ Next
    \/ Restart

SpecRestart == Init /\ [][NextRestart]_vars

\* the server under a wall clock that is adjusted backwards now and then
NextClock ==
    \/ Next
    \/ ClockSetBack

SpecClock == Init /\ [][NextClock]_vars

----------------------------------------------------------------------------
(* The tracking handler call by call, for requests in flight together *)

\* the tracking requests in flight together
CallRequests ==
    OpenRequests
    \cup {Request(Id8, UAGooglebot, Undefined, Undefined),
          Request(Id1, UAMozilla, Undefined, Undefined)}

\* the handler of slot s has begun and has not returned
InHandler(s) == calls[s].pc \notin {"idle", "queued", "done"}

\* handlers that give up the thread at every call, as awaited calls would
MayStep_awaits(s) == TRUE

\* The event loop runs the next call of slot s (0: a query handler). Every
\* handler is a synchronous function and every file call is a *Sync call, so a
\* handler that has begun returns before another callback runs.
MayStep(s) == \A o \in Slots \ {s} : ~InHandler(o)

\* the step of slot s that leaves its call as c
CallStep(s, c) ==
    /\ calls' = [calls EXCEPT ![s] = c]
    /\ req' = [op |-> "call", slot |-> s]
    /\ res' = NoRes

\* the call threw: the error-handling middleware answers
Threw(s) == [calls[s] EXCEPT !.pc = "done", !.res = InternalErrorResponse]

\* a tracking request arrives and its callback is queued; the slots are taken in
\* their order
Arrive(s) ==
    /\ calls[s].pc = "idle"
    /\ \A o \in 1..(s - 1) : calls[o].pc # "idle"
    /\ \E r \in CallRequests : CallStep(s, [calls[s] EXCEPT !.pc = "queued", !.r = r])
    /\ UNCHANGED <<logCache, active, rotated, now, appends>>

\* the handler from its first line to the test of isBot
Handle(s) ==
    /\ calls[s].pc = "queued"
    /\ MayStep(s)
    /\ LET r == calls[s].r
           userAgent == OrElse(r.userAgent, <<>>)
           entry == [emailId |-> r.emailId, timestamp |-> toISOString(now),
                     ip |-> realIp(r.xff, r.ip), userAgent |-> userAgent,
                     referrer |-> OrElse(r.referer, <<>>),
                     isGmailProxy |-> isGmailProxy(userAgent)]
       IN  IF ~ValidId(r.emailId)
           THEN CallStep(s, [calls[s] EXCEPT !.pc = "done", !.res = InvalidIdResponse])
           ELSE IF isBot(userAgent)
           THEN CallStep(s, [calls[s] EXCEPT !.pc = "respond"])
           ELSE CallStep(s, [calls[s] EXCEPT !.pc = "stat", !.entry = entry])
    /\ UNCHANGED <<logCache, active, rotated, now, appends>>

\* rotateLogFile: fs.existsSync(file) and fs.statSync(file).size > MAX_LOG_SIZE
StatFile(s) ==
    /\ calls[s].pc = "stat"
    /\ MayStep(s)
    /\ \E threw \in {FALSE, active.exists} :
          IF threw
          THEN CallStep(s, Threw(s))
          ELSE IF active.exists /\ Size(active) > MAX_LOG_SIZE
          THEN CallStep(s, [calls[s] EXCEPT !.pc = "rename"])
          ELSE CallStep(s, [calls[s] EXCEPT !.pc = "append"])
    /\ UNCHANGED <<logCache, active, rotated, now, appends>>

\* rotateLogFile: fs.renameSync(file, backup), the backup named by Date.now()
RenameFile(s) ==
    /\ calls[s].pc = "rename"
    /\ MayStep(s)
    /\ \E threw \in IF active.exists THEN BOOLEAN ELSE {TRUE} :
          IF threw
          THEN CallStep(s, Threw(s)) /\ UNCHANGED <<active, rotated>>
          ELSE /\ rotated' = [rotated EXCEPT ![now] = active]
               /\ active' = NoFile
               /\ CallStep(s, [calls[s] EXCEPT !.pc = "create"])
    /\ UNCHANGED <<logCache, now, appends>>

\* rotateLogFile: fs.writeFileSync(file, '')
CreateFile(s) ==
    /\ calls[s].pc = "create"
    /\ MayStep(s)
    /\ \E threw \in BOOLEAN :
          IF threw
          THEN CallStep(s, Threw(s)) /\ UNCHANGED active
          ELSE active' = EmptyFile /\ CallStep(s, [calls[s] EXCEPT !.pc = "append"])
    /\ UNCHANGED <<logCache, rotated, now, appends>>

\* logEvent: fs.appendFileSync(file, line)
AppendLine(s) ==
    /\ calls[s].pc = "append"
    /\ MayStep(s)
    /\ \E threw \in BOOLEAN :
          IF threw
          THEN CallStep(s, Threw(s)) /\ UNCHANGED <<active, appends>>
          ELSE /\ active' = appendFileSync(active, calls[s].entry)
               /\ appends' = appends + 1
               /\ CallStep(s, [calls[s] EXCEPT !.pc = "has"])
    /\ UNCHANGED <<logCache, rotated, now>>

\* logEvent: logCache.has(entry.emailId)
HasKey(s) ==
    /\ calls[s].pc = "has"
    /\ MayStep(s)
    /\ IF MapHas(logCache, calls[s].entry.emailId)
       THEN CallStep(s, [calls[s] EXCEPT !.pc = "push"])
       ELSE CallStep(s, [calls[s] EXCEPT !.pc = "set"])
    /\ UNCHANGED <<logCache, active, rotated, now, appends>>

\* logEvent: logCache.set(entry.emailId, [])
SetKey(s) ==
    /\ calls[s].pc = "set"
    /\ MayStep(s)
    /\ logCache' = MapSet(logCache, calls[s].entry.emailId, <<>>)
    /\ CallStep(s, [calls[s] EXCEPT !.pc = "push"])
    /\ UNCHANGED <<active, rotated, now, appends>>

\* logEvent: logCache.get(entry.emailId).push(entry)
PushEntry(s) ==
    /\ calls[s].pc = "push"
    /\ MayStep(s)
    /\ LET id == calls[s].entry.emailId
       IN  logCache' = MapSet(logCache, id, Append(GetLogs(logCache, id), calls[s].entry))
    /\ CallStep(s, [calls[s] EXCEPT !.pc = "respond"])
    /\ UNCHANGED <<active, rotated, now, appends>>

\* the pixel is sent and the handler returns
Respond(s) ==
    /\ calls[s].pc = "respond"
    /\ MayStep(s)
    /\ CallStep(s, [calls[s] EXCEPT !.pc = "done", !.res = PixelResponse])
    /\ UNCHANGED <<logCache, active, rotated, now, appends>>

\* the query handlers, each a synchronous function
QueryStatus == MayStep(0) /\ StatusRequest(Id8)

QueryBulk == MayStep(0) /\ BulkRequest([isArray |-> TRUE, items |-> <<Id8, IdProto>>])

QueryLogs == MayStep(0) /\ DumpLogs

NextCalls ==
    \/ \E s \in Slots : Arrive(s)
    \/ \E s \in Slots : Handle(s)
    \/ \E s \in Slots : StatFile(s)
    \/ \E s \in Slots : RenameFile(s)
    \/ \E s \in Slots : CreateFile(s)
    \/ \E s \in Slots : AppendLine(s)
    \/ \E s \in Slots : HasKey(s)
    \/ \E s \in Slots : SetKey(s)
    \/ \E s \in Slots : PushEntry(s)
    \/ \E s \in Slots : Respond(s)
    \/ QueryStatus
    \/ QueryBulk
    \/ QueryLogs
    \/ Tick

SpecCalls == Init /\ [][NextCalls]_vars

----------------------------------------------------------------------------
(* The properties *)

\* the body of the answer of GET /api/email/{id}/status in a state with index cache
StatusOf(cache, id) == statusHandler(cache, id).res.json

\* the step handled a tracking request that reached the handler
TrackStep == req'.op = "track" /\ req'.fault # "limited"

\* the step handled a tracking request with a valid identifier and no bot user
\* agent, all of whose file-system calls succeeded
OpenStep ==
    /\ TrackStep
    /\ req'.fault = "none"
    /\ ValidId(req'.emailId)
    /\ ~isBot(OrElse(req'.userAgent, <<>>))

\* C1: one tracking request with a valid identifier and a user agent that is no
\* bot, whose log write succeeds, raises status(id).openCount by exactly 1, and
\* after the first such request for the identifier firstOpened equals lastOpened.
C1_OpenCountsOnce ==
    [][OpenStep =>
        LET before == StatusOf(logCache, req'.emailId)
            after  == StatusOf(logCache', req'.emailId)
        IN  /\ after.openCount = before.openCount + 1
            /\ after.opened
            /\ before.openCount = 0 =>
                  /\ after.firstOpened = after.lastOpened
                  /\ after.firstOpened # Null]_vars

\* a second open of the same identifier has been counted
C1_Witness ==
    /\ req.op = "track"
    /\ req.fault = "none"
    /\ res = PixelResponse
    /\ StatusOf(logCache, req.emailId).openCount = 2


\* C2: whatever the logging step of a tracking request with a valid identifier
\* did (logged, skipped a bot, failed to rotate or to write), the response is the
\* pixel with status 200 and the no-cache headers.
C2_PixelWhateverLogging ==
    (req.op = "track" /\ req.fault # "limited" /\ ValidId(req.emailId))
        => res = PixelResponse

\* the user agents the specification calls bots: they contain, whatever the case
\* of the letters, one of these words
BotWords == {<<"b","o","t">>, <<"c","r","a","w","l","e","r">>,
             <<"s","p","i","d","e","r">>, <<"s","l","u","r","p">>}
SaidBot(userAgent) == \E w \in BotWords : Contains(LowerCase(userAgent), w)

\* the step handled a tracking request with a valid identifier and a user agent
\* classified as an image proxy, all of whose file-system calls succeeded
ProxyStep ==
    /\ TrackStep
    /\ req'.fault = "none"
    /\ ValidId(req'.emailId)
    /\ isGmailProxy(OrElse(req'.userAgent, <<>>))

\* C3 as stated: every tracking request classified as a proxy fetch raises
\* openCount by exactly 1.
C3_EveryProxyCounted ==
    [][ProxyStep =>
        StatusOf(logCache', req'.emailId).openCount
            = StatusOf(logCache, req'.emailId).openCount + 1]_vars

\* C3, amended: every tracking request classified as a proxy fetch whose user
\* agent holds no bot word raises openCount by exactly 1, and its event is
\* tagged as a proxy fetch.
C3_ProxyCountedUnlessBot ==
    [][(ProxyStep /\ ~SaidBot(OrElse(req'.userAgent, <<>>))) =>
        LET logs == GetLogs(logCache', req'.emailId)
        IN  /\ StatusOf(logCache', req'.emailId).openCount
                  = StatusOf(logCache, req'.emailId).openCount + 1
            /\ logs[Len(logs)].isGmailProxy
            /\ logs[Len(logs)].userAgent = req'.userAgent]_vars

\* two proxy fetches of one identifier have both been counted
C3_Witness ==
    /\ req.op = "track"
    /\ req.userAgent = UAImageProxy
    /\ res = PixelResponse
    /\ LET logs == GetLogs(logCache, req.emailId)
       IN  Len(logs) = 2 /\ \A i \in 1..2 : logs[i].isGmailProxy

\* C4: a tracking request whose user agent holds a bot word records nothing: the
\* log files and the index are unchanged, and so is status(id).openCount.
C4_BotsNotRecorded ==
    [][(TrackStep /\ SaidBot(OrElse(req'.userAgent, <<>>))) =>
        /\ UNCHANGED <<logCache, active, rotated>>
        /\ StatusOf(logCache', req'.emailId).openCount
              = StatusOf(logCache, req'.emailId).openCount]_vars

\* a bot asked for an identifier that has opens, and got the pixel
C4_Witness ==
    /\ req.op = "track"
    /\ req.fault = "none"
    /\ SaidBot(OrElse(req.userAgent, <<>>))
    /\ res = PixelResponse
    /\ StatusOf(logCache, req.emailId).openCount > 0

\* C5: a tracking request whose identifier fails the test is answered 400 and
\* has no effect: no rotation, no line appended, the index unchanged.
C5_InvalidRejected ==
    [][(TrackStep /\ ~ValidId(req'.emailId)) =>
        /\ res' = InvalidIdResponse
        /\ UNCHANGED <<logCache, active, rotated>>]_vars

\* an invalid identifier was rejected while a rotation was due, for a user agent
\* that is no bot
C5_Witness ==
    /\ req.op = "track"
    /\ req.fault = "none"
    /\ ~ValidId(req.emailId)
    /\ ~isBot(OrElse(req.userAgent, <<>>))
    /\ res.status = 400
    /\ active.exists
    /\ Size(active) > MAX_LOG_SIZE

\* C6: an append made while the log file exceeds the threshold leaves a log file
\* holding exactly the new line, and the whole former content under a rotated name.
C6_RotationKeepsContent ==
    [][(OpenStep /\ active.exists /\ Size(active) > MAX_LOG_SIZE) =>
        LET logs == GetLogs(logCache', req'.emailId)
        IN  /\ active'.exists
            /\ active'.base = 0
            /\ active'.lines = <<logs[Len(logs)]>>
            /\ Size(active') = LineSize(logs[Len(logs)])
            /\ \E t \in DOMAIN rotated :
                  /\ rotated'[t] = active
                  /\ \A u \in DOMAIN rotated \ {t} : rotated'[u] = rotated[u]]_vars

\* a rotation has moved the content of an earlier run and a line of this one
C6_Witness ==
    /\ req.op = "track"
    /\ req.fault = "none"
    /\ res = PixelResponse
    /\ Len(active.lines) = 1
    /\ active.base = 0
    /\ \E t \in DOMAIN rotated :
          rotated[t].exists /\ rotated[t].base > 0 /\ Len(rotated[t].lines) = 1


\* the lines the log files hold: the active file and every rotated file
DurableLines ==
    Range(active.lines) \cup UNION {Range(rotated[t].lines) : t \in DOMAIN rotated}

\* C7: in every reachable state, also after failed writes and failed rotations,
\* every event the index holds is in the durable log, the active file or a
\* rotated one.
C7_IndexWithinLog ==
    \A e \in Range(AllEntries(logCache)) : e \in DurableLines

\* C8: the bulk answer has one entry for every identifier asked for, the zero
\* summary for an identifier without events and opened with the count k for one
\* with k events; the single status of an unknown identifier is the zero
\* summary and no error.
C8_BulkEntryPerIdentifier ==
    /\ (req.op = "bulk" /\ req.emailIds.isArray) =>
          /\ res.status = 200
          /\ \A i \in DOMAIN req.emailIds.items :
                LET id == req.emailIds.items[i]
                    k  == Len(GetLogs(logCache, id))
                IN  /\ id \in DOMAIN res.json.results
                    /\ res.json.results[id].opened = (k > 0)
                    /\ res.json.results[id].openCount = k
                    /\ k = 0 => /\ res.json.results[id].firstOpened = Null
                                /\ res.json.results[id].lastOpened = Null
    /\ (req.op = "status" /\ ~MapHas(logCache, req.emailId)) =>
          /\ res.status = 200
          /\ ~res.json.opened
          /\ res.json.openCount = 0
          /\ res.json.firstOpened = Null
          /\ res.json.lastOpened = Null

\* C9: the status, bulk status and dump requests change neither the index nor
\* the log files, whatever identifiers they name.
C9_QueriesReadOnly ==
    [][req'.op \in {"status", "bulk", "logs"} =>
        UNCHANGED <<logCache, active, rotated>>]_vars

\* the status of an identifier that is invalid and not in the index was asked
\* while the index held events
C9_Witness ==
    /\ req.op = "status"
    /\ ~ValidId(req.emailId)
    /\ ~MapHas(logCache, req.emailId)
    /\ res.status = 200
    /\ Len(logCache) = 2

\* the identifiers the specification calls valid
SaidValid(id) ==
    /\ Len(id) \in 8..128
    /\ Range(id) \subseteq IdChars

\* C10: the tracking endpoint answers 400 exactly for the identifiers that have a
\* character outside [A-Za-z0-9_-] or a length outside 8..128.
C10_AcceptsExactlyValid ==
    [][TrackStep => (res'.status = 400 <=> ~SaidValid(req'.emailId))]_vars

\* an identifier of 128 characters was accepted
C10_Witness ==
    /\ req.op = "track"
    /\ req.fault = "none"
    /\ Len(req.emailId) = 128
    /\ res = PixelResponse


\* C11: a bulk status request whose emailIds is no array, or is absent, is
\* answered 400 with success false and no results, and changes neither the index
\* nor the log files.
C11_BulkRejectsNonArray ==
    [][(req'.op = "bulk" /\ ~req'.emailIds.isArray) =>
        /\ res'.status = 400
        /\ res'.json.success = FALSE
        /\ "results" \notin DOMAIN res'.json
        /\ UNCHANGED <<logCache, active, rotated>>]_vars

\* a bulk request without emailIds was rejected while the index held events
C11_Witness ==
    /\ req.op = "bulk"
    /\ ~req.emailIds.isArray
    /\ req.emailIds.items = Undefined
    /\ res.status = 400
    /\ logCache # <<>>


\* the lines of the rotated files from clock reading t on, in the order of the
\* names
RECURSIVE RotatedLines(_)
RotatedLines(t) ==
    IF t > MaxClock THEN <<>> ELSE rotated[t].lines \o RotatedLines(t + 1)

\* the events of identifier id in the durable log, rotated files then active file
DurableEvents(id) ==
    LET IsOf(e) == e.emailId = id
    IN  SelectSeq(RotatedLines(0) \o active.lines, IsOf)

\* the identifiers with an event in the index or in the durable log
KnownIds ==
    {logCache[i].key : i \in DOMAIN logCache}
    \cup {e.emailId : e \in DurableLines}

\* C12: in every reachable state, also right after a restart of the process over
\* a log that is not empty, the sequence the index holds for an identifier is
\* the sequence of that identifier's events in the durable log, rotated files
\* and active file together.
C12_IndexIsDurableLog ==
    \A id \in KnownIds : GetLogs(logCache, id) = DurableEvents(id)


\* the step is a call made by the handler of slot s
HandlerStep(s) == req'.op = "call" /\ req'.slot = s /\ calls[s].pc # "idle"

\* the request of slot s was answered with the pixel after its event was logged
Accepted(s, id) ==
    /\ calls[s].pc = "done"
    /\ calls[s].res.kind = "pixel"
    /\ calls[s].r.emailId = id
    /\ ~SaidBot(OrElse(calls[s].r.userAgent, <<>>))

\* every request issued has been answered
AllReturned == \A s \in Slots : calls[s].pc = "done"

\* every identifier's openCount is the number of accepted requests for it
CountsAccepted ==
    \A id \in {calls[s].r.emailId : s \in Slots} :
        StatusOf(logCache, id).openCount = Cardinality({s \in Slots : Accepted(s, id)})

\* C13: tracking requests in flight together are serialized. No call of one
\* request's handler (size test, rename, creation of the empty file, append,
\* index update) runs between two calls of another's; no line is appended while
\* another request is between its rename and its creation of the new file; and
\* once all the requests are answered every identifier's openCount is the
\* number of accepted requests for it.
C13_TrackingSerialized ==
    [][/\ \A s \in Slots :
            HandlerStep(s) =>
                /\ \A o \in Slots \ {s} : ~InHandler(o)
                /\ calls[s].pc = "append" =>
                      \A o \in Slots \ {s} : calls[o].pc # "create"
       /\ (AllReturned => CountsAccepted)']_vars

\* two requests for one identifier, in flight together, were both logged, the
\* second after a rotation
C13_Witness ==
    /\ AllReturned
    /\ \A s \in Slots : Accepted(s, Id8)
    /\ StatusOf(logCache, Id8).openCount = MaxCalls
    /\ \E t \in DOMAIN rotated : rotated[t].exists /\ Len(rotated[t].lines) = 1
    /\ Len(active.lines) = 1

\* the step is a query
QueryStep == req'.op \in {"status", "bulk", "logs"}

\* C14: a query in flight together with tracking requests sees every append
\* applied in full or not at all: it runs in no state where a handler is between
\* its calls, where a line is in the log whose event is not in the index, or
\* where the index holds a key whose list is still empty.
C14_QueriesSeeWholeAppends ==
    [][QueryStep =>
        /\ \A s \in Slots : ~InHandler(s)
        /\ \A id \in KnownIds : Len(DurableEvents(id)) <= Len(GetLogs(logCache, id))
        /\ \A i \in DOMAIN logCache : logCache[i].value # <<>>]_vars

\* a status query ran after one request was logged and while another waited
C14_Witness ==
    /\ req.op = "status"
    /\ req.emailId = Id8
    /\ res.json.openCount = 1
    /\ \E s \in Slots : Accepted(s, Id8)
    /\ \E s \in Slots : calls[s].pc = "queued"


\* the clock reading an ISO 8601 time stamp of the log stands for
TimeOf(timestamp) ==
    LET Value(c) == CHOOSE d \in 0..9 : Digits[d + 1] = c
    IN  100 * Value(timestamp[21]) + 10 * Value(timestamp[22]) + Value(timestamp[23])

\* the time stamps of the events the index holds for id
TimesOf(id) == {TimeOf(e.timestamp) : e \in Range(GetLogs(logCache, id))}

\* s is a summary whose firstOpened is the earliest and whose lastOpened is the
\* latest of the times
EarliestAndLatest(s, times) ==
    /\ s.firstOpened # Null
    /\ s.lastOpened # Null
    /\ \A t \in times : TimeOf(s.firstOpened) <= t /\ t <= TimeOf(s.lastOpened)
    /\ TimeOf(s.firstOpened) <= TimeOf(s.lastOpened)

\* C15: in every reachable state, for every identifier with an event, the
\* firstOpened of status and of bulkStatus is the earliest time stamp of its
\* events and lastOpened the latest, so firstOpened <= lastOpened, whatever
\* sequence of readings the clock produces.
C15_FirstEarliestLastLatest ==
    \A i \in DOMAIN logCache :
        LET id == logCache[i].key
        IN  GetLogs(logCache, id) # <<>> =>
               /\ EarliestAndLatest(StatusOf(logCache, id), TimesOf(id))
               /\ EarliestAndLatest(BulkSummary(GetLogs(logCache, id)), TimesOf(id))


\* C16: over any sequence of appends and rotations, also several rotations and
\* rotations at one clock reading, no written event leaves the durable log:
\* every line a file holds stays in a file, and a rotated file that exists is
\* neither deleted nor overwritten.
C16_NoEventLost ==
    [][/\ DurableLines \subseteq DurableLines'
       /\ \A t \in DOMAIN rotated : rotated[t].exists => rotated'[t] = rotated[t]]_vars


\* C17: the rotation test runs before every append, so no line is appended to a
\* log file whose size is already over the threshold: in every reachable state
\* the log file is at most MAX_LOG_SIZE plus one line, its last.
C17_ActiveSizeBounded ==
    active.exists =>
        IF active.lines = <<>>
        THEN Size(active) <= MAX_LOG_SIZE
        ELSE Size(active) - LineSize(active.lines[Len(active.lines)]) <= MAX_LOG_SIZE

\* the log file is over the threshold by its last line, after an earlier rotation
C17_Witness ==
    /\ active.exists
    /\ Len(active.lines) = 1
    /\ Size(active) > MAX_LOG_SIZE
    /\ \E t \in DOMAIN rotated : rotated[t].exists /\ Size(rotated[t]) > MAX_LOG_SIZE


\* a is a prefix of b
IsPrefix(a, b) == Len(a) <= Len(b) /\ SubSeq(b, 1, Len(a)) = a

\* the identifiers a request can carry
AllIds ==
    {r.emailId : r \in TrackRequests} \cup StatusIds

\* C18: within one lifetime of the process the index only grows at its end, also
\* across rotations: every identifier's sequence after a step has its sequence
\* before the step as a prefix, so openCount never decreases and firstOpened
\* never changes once it is set.
C18_IndexAppendOnly ==
    [][\A id \in AllIds :
          /\ IsPrefix(GetLogs(logCache, id), GetLogs(logCache', id))
          /\ StatusOf(logCache', id).openCount >= StatusOf(logCache, id).openCount
          /\ StatusOf(logCache, id).firstOpened # Null =>
                StatusOf(logCache', id).firstOpened = StatusOf(logCache, id).firstOpened]_vars

\* an identifier has events of two clock readings, the second logged after a
\* rotation
C18_Witness ==
    /\ \E t \in DOMAIN rotated : rotated[t].exists
    /\ Len(GetLogs(logCache, Id8)) >= 2
    /\ StatusOf(logCache, Id8).firstOpened # StatusOf(logCache, Id8).lastOpened


\* the answer of the bulk endpoint asked for identifier id alone
BulkOf(cache, id) == bulkStatusHandler(cache, [isArray |-> TRUE, items |-> <<id>>]).res

\* C19: a tracking request for an identifier changes the entry of no other
\* identifier, whatever its outcome: the index sequence, the status and the bulk
\* summary of every other identifier are the same before and after it.
C19_OtherIdsUntouched ==
    [][TrackStep =>
        \A id \in AllIds \ {req'.emailId} :
            /\ GetLogs(logCache', id) = GetLogs(logCache, id)
            /\ StatusOf(logCache', id) = StatusOf(logCache, id)
            /\ BulkOf(logCache', id) = BulkOf(logCache, id)]_vars

\* the first open of one identifier was logged while the index held events of
\* another
C19_Witness ==
    /\ req.op = "track"
    /\ req.emailId = Id8
    /\ req.fault = "none"
    /\ ~SaidBot(OrElse(req.userAgent, <<>>))
    /\ Len(logCache) = 2
    /\ logCache[1].key = IdProto
    /\ Len(logCache[1].value) >= 1
    /\ logCache[2].key = Id8
    /\ Len(logCache[2].value) = 1


\* the sum of the openCount of status over the keys of the index from i on
RECURSIVE SumOpenCounts(_)
SumOpenCounts(i) ==
    IF i > Len(logCache)
    THEN 0
    ELSE StatusOf(logCache, logCache[i].key).openCount + SumOpenCounts(i + 1)

\* C20: in every reachable state the single status and the bulk status of every
\* identifier agree on opened, openCount, firstOpened and lastOpened, and the
\* total of the dump is the sum of openCount over the identifiers of the index.
C20_QueriesAgree ==
    /\ \A id \in AllIds :
          LET single  == StatusOf(logCache, id)
              results == BulkOf(logCache, id).json.results
          IN  /\ id \in DOMAIN results
              /\ results[id].opened = single.opened
              /\ results[id].openCount = single.openCount
              /\ results[id].firstOpened = single.firstOpened
              /\ results[id].lastOpened = single.lastOpened
    /\ logsHandler(logCache).res.json.total = SumOpenCounts(1)

====
